---- MODULE Spec2Model ----
(***************************************************************************)
(* Gridify (src/app.py): a Streamlit script that normalises a store URL,   *)
(* fetches <origin>/products.json once, extracts one image per product and *)
(* lays the images out in a grid.                                          *)
(*                                                                         *)
(* Strings that the program inspects character by character (URLs) are     *)
(* sequences of one-character strings.  Opaque strings (titles, handles,   *)
(* image sources) are TLA+ strings.                                        *)
(***************************************************************************)
EXTENDS Integers, Sequences, FiniteSets, TLC

VARIABLES
    pc,            \* position of the script / of the function under study
    url_input,     \* st.text_input value (line 74)
    cleaned_url,   \* result of clean_shopify_url(url_input) (line 78)
    recleaned,     \* clean_shopify_url applied to its own output
    endpoint,      \* [branch, api_url] built by fetch_shopify_products (15-19)
    request,       \* the requests.get call issued (line 25), <<>> when none
    lib,           \* the installed requests build: class of its JSON error
    outcome,       \* what the GET and the decoding produced
    products,      \* value returned by fetch_shopify_products
    image_data,    \* value returned by extract_images
    slider,        \* the "Grid Columns" widget value kept by the session
    cols_count,    \* value of the slider read by this run (line 89)
    grid,          \* the rows rendered (lines 95-109), each a batch of cells
    messages,      \* user-visible st.error / st.success / st.warning calls
    stages,        \* stages executed by the current run, in order
    gets,          \* requests.get calls made by the current run
    runs           \* script runs started so far

vars == <<pc, url_input, cleaned_url, recleaned, endpoint, request, lib,
          outcome, products, image_data, slider, cols_count, grid, messages,
          stages, gets, runs>>

(***************************************************************************)
(* Bounds of the model.                                                    *)
(***************************************************************************)
MaxBody == 3        \* characters of free text in a raw URL input
MaxProducts == 2    \* products in a catalog response (pipeline)
MaxCatalog == 2     \* products handed to extract_images alone
MaxEntries == 17    \* entries handed to the grid loop alone
MaxRuns == 2        \* script runs of one session

(***************************************************************************)
(* Constants of the program: the slider of line 89, the timeout of line 25.*)
(***************************************************************************)
MinColumns == 2
MaxColumns == 8
DefaultColumns == 5
RequestTimeout == 10

(***************************************************************************)
(* Character strings.                                                      *)
(***************************************************************************)
HttpPrefix == <<"h","t","t","p",":","/","/">>
HttpsPrefix == <<"h","t","t","p","s",":","/","/">>
UpperHttpPrefix == <<"H","T","T","P",":","/","/">>
FtpPrefix == <<"f","t","p",":","/","/">>
SchemeSep == <<":","/","/">>
ProductsJson == <<"/","p","r","o","d","u","c","t","s",".","j","s","o","n">>
LimitQuery == <<"?","l","i","m","i","t","=","1","0","0","0">>
\* the literal 'products.json?limit=1000' tested at line 16
EndpointSuffix == Tail(ProductsJson) \o LimitQuery
\* the literal '/products.json?limit=1000' appended at line 17
EndpointTail == ProductsJson \o LimitQuery

\* str.strip() removes whitespace; these are the whitespace characters in use
Whitespace == {" ", "\t", "\n", "\r"}
\* urllib.parse._UNSAFE_URL_BYTES_TO_REMOVE
UnsafeUrlChars == {"\t", "\r", "\n"}
Lowercase == {"a","b","c","d","e","f","g","h","i","j","k","l","m","n","o","p",
              "q","r","s","t","u","v","w","x","y","z"}
Uppercase == {"A","B","C","D","E","F","G","H","I","J","K","L","M","N","O","P",
              "Q","R","S","T","U","V","W","X","Y","Z"}
Digits == {"0","1","2","3","4","5","6","7","8","9"}
\* urllib.parse.scheme_chars
SchemeChars == Lowercase \cup Uppercase \cup Digits \cup {"+", "-", "."}

ToLower(c) ==
    CASE c = "H" -> "h" [] c = "T" -> "t" [] c = "P" -> "p" [] c = "S" -> "s"
      [] c = "F" -> "f" [] c = "A" -> "a" [] OTHER -> c

Lower(s) == [i \in 1..Len(s) |-> ToLower(s[i])]

RECURSIVE LStrip(_, _)
LStrip(s, cs) ==
    IF s # <<>> /\ Head(s) \in cs THEN LStrip(Tail(s), cs) ELSE s

RECURSIVE RStrip(_, _)
RStrip(s, cs) ==
    IF s # <<>> /\ s[Len(s)] \in cs THEN RStrip(SubSeq(s, 1, Len(s) - 1), cs)
    ELSE s

\* str.strip()
Strip(s) == RStrip(LStrip(s, Whitespace), Whitespace)

\* str.startswith / str.endswith
StartsWith(s, p) == Len(s) >= Len(p) /\ SubSeq(s, 1, Len(p)) = p
EndsWith(s, p) ==
    Len(s) >= Len(p) /\ SubSeq(s, Len(s) - Len(p) + 1, Len(s)) = p

Without(s, cs) == SelectSeq(s, LAMBDA c : c \notin cs)

Contains(s, c) == \E i \in 1..Len(s) : s[i] = c

\* 1-based index of the first character of s that is in cs, Len(s)+1 if none
FirstOf(s, cs) ==
    IF \E i \in 1..Len(s) : s[i] \in cs
    THEN CHOOSE i \in 1..Len(s) :
             s[i] \in cs /\ \A j \in 1..(i - 1) : s[j] \notin cs
    ELSE Len(s) + 1

(***************************************************************************)
(* urllib.parse.urlparse, as far as clean_shopify_url reads its result:    *)
(* the scheme and the netloc, or the ValueError it raises.                 *)
(***************************************************************************)
UrlParse(raw) ==
    LET url0 == Without(LStrip(raw, Whitespace), UnsafeUrlChars)
        i == FirstOf(url0, {":"})
        hasScheme ==
            /\ i <= Len(url0)
            /\ i > 1
            /\ url0[1] \in Lowercase \cup Uppercase
            /\ \A j \in 1..(i - 1) : url0[j] \in SchemeChars
        scheme == IF hasScheme THEN Lower(SubSeq(url0, 1, i - 1)) ELSE <<>>
        rest == IF hasScheme THEN SubSeq(url0, i + 1, Len(url0)) ELSE url0
        hasNetloc == StartsWith(rest, <<"/","/">>)
        afterSlashes == SubSeq(rest, 3, Len(rest))
        netloc ==
            IF hasNetloc
            THEN SubSeq(afterSlashes, 1,
                        FirstOf(afterSlashes, {"/", "?", "#"}) - 1)
            ELSE <<>>
        invalid ==
            \/ Contains(netloc, "[") /\ ~Contains(netloc, "]")
            \/ Contains(netloc, "]") /\ ~Contains(netloc, "[")
    IN  [raised |-> invalid, scheme |-> scheme, netloc |-> netloc]

\* clean_shopify_url without the scheme test of line 63: always prepends
CleanAlwaysPrepending(url) ==
    LET parsed == UrlParse(HttpsPrefix \o Strip(url))
    IN  IF parsed.raised
        THEN [raised |-> TRUE, value |-> <<>>]
        ELSE [raised |-> FALSE,
              value |-> parsed.scheme \o SchemeSep \o parsed.netloc]

\* clean_shopify_url returning the whole URL instead of scheme and netloc
CleanKeepingPath(url) ==
    LET stripped == Strip(url)
        withScheme ==
            IF ~(StartsWith(stripped, HttpPrefix)
                 \/ StartsWith(stripped, HttpsPrefix))
            THEN HttpsPrefix \o stripped
            ELSE stripped
    IN  [raised |-> UrlParse(withScheme).raised, value |-> withScheme]

(***************************************************************************)
(* clean_shopify_url (lines 58-68).  The result is [raised, value]: the    *)
(* ValueError of urlparse is not handled and leaves the function.          *)
(***************************************************************************)
clean_shopify_url(url) ==
    LET stripped == Strip(url)
        withScheme ==
            IF ~(StartsWith(stripped, HttpPrefix)
                 \/ StartsWith(stripped, HttpsPrefix))
            THEN HttpsPrefix \o stripped
            ELSE stripped
        parsed == UrlParse(withScheme)
    IN  IF parsed.raised
        THEN [raised |-> TRUE, value |-> <<>>]
        ELSE [raised |-> FALSE,
              value |-> parsed.scheme \o SchemeSep \o parsed.netloc]

(***************************************************************************)
(* Endpoint construction of fetch_shopify_products (lines 15-19).          *)
(***************************************************************************)
BuildEndpoint(base_url) ==
    LET clean_url == RStrip(base_url, {"/"})
    IN  IF ~EndsWith(clean_url, EndpointSuffix)
        THEN [branch |-> "append", api_url |-> clean_url \o EndpointTail]
        ELSE [branch |-> "as_is", api_url |-> clean_url]

(***************************************************************************)
(* Raw inputs: optional leading blank, optional scheme-like prefix, free   *)
(* text over BodyChars, optional endpoint suffix.                          *)
(***************************************************************************)
BodyChars == {"a", " ", "\t", "/", "?", "#", ":", "["}

RECURSIVE SeqsUpTo(_, _)
SeqsUpTo(S, n) ==
    IF n = 0 THEN {<<>>}
    ELSE LET shorter == SeqsUpTo(S, n - 1)
         IN  shorter \cup {Append(s, c) : s \in shorter, c \in S}

Leads == {<<>>, <<" ">>}
Prefixes == {<<>>, HttpPrefix, HttpsPrefix, UpperHttpPrefix, FtpPrefix}
Suffixes == {<<>>, EndpointTail}

RawInputs ==
    {l \o p \o b \o s :
        l \in Leads, p \in Prefixes, b \in SeqsUpTo(BodyChars, MaxBody),
        s \in Suffixes}

NoRequest == [method |-> "none", url |-> <<>>, timeout |-> 0]
NoBody == [kind |-> "none", data |-> [none |-> ""]]
NoOutcome == [kind |-> "none", status |-> 0, body |-> NoBody]
NoEndpoint == [branch |-> "none", api_url |-> <<>>]
NotCleaned == [raised |-> FALSE, value |-> <<>>]

(***************************************************************************)
(* SpecClean: clean_shopify_url and the endpoint construction applied to   *)
(* every raw input.                                                        *)
(***************************************************************************)
InitClean ==
    /\ pc = "raw"
    /\ url_input \in RawInputs
    /\ cleaned_url = NotCleaned
    /\ recleaned = NotCleaned
    /\ endpoint = NoEndpoint
    /\ request = NoRequest
    /\ lib = "none"
    /\ outcome = NoOutcome
    /\ products = <<>>
    /\ image_data = <<>>
    /\ slider = DefaultColumns
    /\ cols_count = DefaultColumns
    /\ grid = <<>>
    /\ messages = <<>>
    /\ stages = <<>>
    /\ gets = 0
    /\ runs = 0

\* line 78
CleanInput ==
    /\ pc = "raw"
    /\ cleaned_url' = clean_shopify_url(url_input)
    /\ pc' = IF cleaned_url'.raised THEN "raised" ELSE "cleaned"
    /\ UNCHANGED <<url_input, recleaned, endpoint, request, lib, outcome,
                   products, image_data, slider, cols_count, grid, messages,
                   stages, gets, runs>>

\* the cleaned URL handed to fetch_shopify_products (line 81, lines 15-19)
EndpointOfCleaned ==
    /\ pc = "cleaned"
    /\ endpoint' = BuildEndpoint(cleaned_url.value)
    /\ pc' = "built"
    /\ UNCHANGED <<url_input, cleaned_url, recleaned, request, lib, outcome,
                   products, image_data, slider, cols_count, grid, messages,
                   stages, gets, runs>>

\* clean_shopify_url re-applied to its own output
CleanAgain ==
    /\ pc = "built"
    /\ recleaned' = clean_shopify_url(cleaned_url.value)
    /\ pc' = "recleaned"
    /\ UNCHANGED <<url_input, cleaned_url, endpoint, request, lib, outcome,
                   products, image_data, slider, cols_count, grid, messages,
                   stages, gets, runs>>

NextClean == CleanInput \/ EndpointOfCleaned \/ CleanAgain

SpecClean == InitClean /\ [][NextClean]_vars

(***************************************************************************)
(* Decoded JSON objects are functions from the keys present to values;     *)
(* dict.get(key, default) is Get.                                          *)
(***************************************************************************)
PyNone == "<None>"
Get(d, key, default) == IF key \in DOMAIN d THEN d[key] ELSE default
\* truth value of a string or None (line 54)
Truthy(v) == v # PyNone /\ v # ""
Restrict(d, keys) == [k \in keys |-> d[k]]

\* image records: with a source, with an empty source, without the key
ImgA == [alt |-> "", src |-> "s1"]
ImgB == [alt |-> "", src |-> "s2"]
ImgEmptySrc == [alt |-> "", src |-> ""]
ImgNoSrc == [alt |-> ""]
ImageLists ==
    { <<>>, <<ImgA>>, <<ImgEmptySrc>>, <<ImgNoSrc>>, <<ImgA, ImgB>>,
      <<ImgB, ImgA>>, <<ImgNoSrc, ImgA>>, <<ImgEmptySrc, ImgB>>,
      <<ImgA, ImgNoSrc>> }

ProductKeys == {"title", "handle", "images"}
FullProducts ==
    [vendor : {"v"}, title : {"T"}, handle : {<<"h">>}, images : ImageLists]
\* every product, with any of title, handle and images left out
Products ==
    {Restrict(p, {"vendor"} \cup keys) :
        p \in FullProducts, keys \in SUBSET ProductKeys}

DefaultTitle == "Unknown Product"
ProductsPath == <<"/","p","r","o","d","u","c","t","s","/">>

\* extract_images taking the first image that has a source instead of the
\* first image
RECURSIVE ExtractFirstUsable(_, _)
ExtractFirstUsable(prods, base_url) ==
    IF prods = <<>> THEN <<>>
    ELSE LET product == Head(prods)
             title == Get(product, "title", DefaultTitle)
             handle == Get(product, "handle", <<>>)
             product_url == base_url \o ProductsPath \o handle
             usable ==
                 SelectSeq(Get(product, "images", <<>>),
                           LAMBDA img : Truthy(Get(img, "src", PyNone)))
             found ==
                 IF usable # <<>>
                 THEN << <<usable[1].src, title, product_url>> >>
                 ELSE <<>>
         IN  found \o ExtractFirstUsable(Tail(prods), base_url)

(***************************************************************************)
(* extract_images (lines 36-56).                                           *)
(***************************************************************************)
RECURSIVE extract_images(_, _)
extract_images(prods, base_url) ==
    IF prods = <<>> THEN <<>>
    ELSE LET product == Head(prods)
             title == Get(product, "title", DefaultTitle)
             handle == Get(product, "handle", <<>>)
             product_url == base_url \o ProductsPath \o handle
             product_images == Get(product, "images", <<>>)
             found ==
                 IF product_images # <<>>
                 THEN LET first_img == product_images[1]
                          src == Get(first_img, "src", PyNone)
                      IN  IF Truthy(src)
                          THEN << <<src, title, product_url>> >>
                          ELSE <<>>
                 ELSE <<>>
         IN  found \o extract_images(Tail(prods), base_url)

(***************************************************************************)
(* The grid loop (lines 93-99): range(0, len(image_data), cols_count) and  *)
(* the slice image_data[i:i+cols_count] of each step.                      *)
(***************************************************************************)
Min(a, b) == IF a < b THEN a ELSE b

\* image_data[i:j], 0-based, clipped like a Python slice
Slice(s, i, j) == SubSeq(s, i + 1, Min(j, Len(s)))

RECURSIVE RowsFrom(_, _, _)
RowsFrom(data, i, cols) ==
    IF i >= Len(data) THEN <<>>
    ELSE <<Slice(data, i, i + cols)>> \o RowsFrom(data, i + cols, cols)

\* the grid loop stopping before a last, shorter batch
RenderFullRowsOnly(data, cols) ==
    RowsFrom(SubSeq(data, 1, Len(data) - (Len(data) % cols)), 0, cols)

RenderGrid(data, cols) == RowsFrom(data, 0, cols)

\* math.ceil(len(image_data) / cols_count) of line 93
CeilDiv(n, c) == IF n % c = 0 THEN n \div c ELSE (n \div c) + 1

(***************************************************************************)
(* SpecExtract: extract_images applied to every catalog.                   *)
(***************************************************************************)
Catalogs == SeqsUpTo(Products, MaxCatalog)
Origins == {HttpsPrefix \o <<"a">>, HttpPrefix \o <<"b">>}

InitExtract ==
    /\ pc = "catalog"
    /\ products \in Catalogs
    /\ cleaned_url \in {[raised |-> FALSE, value |-> o] : o \in Origins}
    /\ url_input = <<>>
    /\ recleaned = NotCleaned
    /\ endpoint = NoEndpoint
    /\ request = NoRequest
    /\ lib = "none"
    /\ outcome = NoOutcome
    /\ image_data = <<>>
    /\ slider = DefaultColumns
    /\ cols_count = DefaultColumns
    /\ grid = <<>>
    /\ messages = <<>>
    /\ stages = <<>>
    /\ gets = 0
    /\ runs = 0

\* line 84
ExtractCatalog ==
    /\ pc = "catalog"
    /\ image_data' = extract_images(products, cleaned_url.value)
    /\ pc' = "extracted"
    /\ UNCHANGED <<url_input, cleaned_url, recleaned, endpoint, request, lib,
                   outcome, products, slider, cols_count, grid, messages,
                   stages, gets, runs>>

NextExtract == ExtractCatalog

SpecExtract == InitExtract /\ [][NextExtract]_vars

(***************************************************************************)
(* SpecGrid: the grid loop applied to every entry count and column count.  *)
(***************************************************************************)
GridOrigin == HttpsPrefix \o <<"a">>
\* the k-th entry, told apart from the others by its handle
Entry(k) == <<"s1", "T", GridOrigin \o ProductsPath \o [j \in 1..k |-> "h"]>>
Entries(n) == [k \in 1..n |-> Entry(k)]

InitGrid ==
    /\ pc = "entries"
    /\ image_data \in {Entries(n) : n \in 0..MaxEntries}
    /\ slider \in MinColumns..MaxColumns
    /\ cols_count = DefaultColumns
    /\ grid = <<>>
    /\ url_input = <<>>
    /\ cleaned_url = NotCleaned
    /\ recleaned = NotCleaned
    /\ endpoint = NoEndpoint
    /\ request = NoRequest
    /\ lib = "none"
    /\ outcome = NoOutcome
    /\ products = <<>>
    /\ messages = <<>>
    /\ stages = <<>>
    /\ gets = 0
    /\ runs = 0

\* lines 89-99
RenderEntries ==
    /\ pc = "entries"
    /\ cols_count' = slider
    /\ grid' = RenderGrid(image_data, cols_count')
    /\ pc' = "rendered"
    /\ UNCHANGED <<url_input, cleaned_url, recleaned, endpoint, request, lib,
                   outcome, products, image_data, slider, messages, stages,
                   gets, runs>>

NextGrid == RenderEntries

SpecGrid == InitGrid /\ [][NextGrid]_vars

(***************************************************************************)
(* The HTTP exchange.  What the store answers is the environment's choice: *)
(* no answer at all (connection error, timeout, a URL requests rejects),   *)
(* or a response with a status and a body.  A body is not JSON, a JSON     *)
(* value that is no object, or a JSON object with or without "products".   *)
(***************************************************************************)
ParamsEncoded == <<"l","i","m","i","t","=","2","5","0">>   \* {'limit': 250}

\* requests builds the URL it sends by adding the encoded params to the
\* query of the URL it is given
PreparedUrl(api_url, params) ==
    api_url \o (IF Contains(api_url, "?") THEN <<"&">> ELSE <<"?">>) \o params

WithImage ==
    [vendor |-> "v", title |-> "T", handle |-> <<"h">>,
     images |-> <<ImgA, ImgB>>]
WithoutImage ==
    [vendor |-> "v", title |-> "T", handle |-> <<"h">>, images |-> <<>>]
Untitled == [vendor |-> "v", handle |-> <<"h">>, images |-> <<ImgNoSrc, ImgA>>]
SampleProducts == {WithImage, WithoutImage, Untitled}

Bodies ==
    {[kind |-> k, data |-> [none |-> ""]] :
        k \in {"not_json", "array", "null", "number", "string"}}
    \cup {[kind |-> "object", data |-> [errors |-> "Not Found"]]}
    \cup {[kind |-> "object", data |-> [products |-> c]] :
            c \in SeqsUpTo(SampleProducts, MaxProducts)}

Statuses == {200, 404, 500}

NoResponse ==
    {[kind |-> k, status |-> 0, body |-> NoBody] :
        k \in {"connection_error", "timeout", "invalid_url"}}
Responses == [kind : {"response"}, status : Statuses, body : Bodies]

\* a URL without a host is rejected by requests before anything is sent
Outcomes(base_url) ==
    IF base_url \in {HttpPrefix, HttpsPrefix}
    THEN {o \in NoResponse : o.kind = "invalid_url"}
    ELSE NoResponse \cup Responses

\* the class of the error response.json() raises: a RequestException
\* (requests 2.27 and later) or a plain ValueError (earlier)
Libs == {"json_error_is_request_exception", "json_error_is_value_error"}

FetchError == "Error fetching data"
InvalidJson == "Invalid JSON response. Is this a Shopify site?"
Found == "Found products"
NoProducts ==
    "No products found. Ensure the URL is correct and the site is built on Shopify."
Message(level, text, count) == [level |-> level, text |-> text, count |-> count]

(***************************************************************************)
(* fetch_shopify_products (lines 9-34), for one answer of the store.       *)
(* raised: an exception left the function (the AttributeError of data.get  *)
(* on a value that is no dict is caught by neither handler).               *)
(***************************************************************************)
fetch_shopify_products(base_url, o, build) ==
    LET ep == BuildEndpoint(base_url)
        req == [method |-> "GET",
                url |-> PreparedUrl(ep.api_url, ParamsEncoded),
                timeout |-> RequestTimeout]
        request_exception ==
            \/ o.kind # "response"
            \/ o.status >= 400 /\ o.status < 600
            \/ o.body.kind = "not_json"
                   /\ build = "json_error_is_request_exception"
        value_error == ~request_exception /\ o.body.kind = "not_json"
        attribute_error ==
            ~request_exception /\ ~value_error /\ o.body.kind # "object"
    IN  [endpoint |-> ep,
         request |-> req,
         raised |-> attribute_error,
         value |->
             IF request_exception \/ value_error \/ attribute_error
             THEN <<>>
             ELSE Get(o.body.data, "products", <<>>),
         errors |->
             IF request_exception THEN <<Message("error", FetchError, 0)>>
             ELSE IF value_error THEN <<Message("error", InvalidJson, 0)>>
             ELSE <<>>]

(***************************************************************************)
(* Spec: the script.  Streamlit runs it from the top when the page loads   *)
(* and again after every interaction (text entered, slider moved).         *)
(***************************************************************************)
UrlInputs ==
    { <<>>, <<"a">>, <<" ">>, <<"[">>, HttpPrefix \o <<"a">>,
      <<"a">> \o EndpointTail }

Init ==
    /\ pc = "start"
    /\ url_input = <<>>
    /\ lib \in Libs
    /\ slider = DefaultColumns
    /\ cleaned_url = NotCleaned
    /\ recleaned = NotCleaned
    /\ endpoint = NoEndpoint
    /\ request = NoRequest
    /\ outcome = NoOutcome
    /\ products = <<>>
    /\ image_data = <<>>
    /\ cols_count = DefaultColumns
    /\ grid = <<>>
    /\ messages = <<>>
    /\ stages = <<>>
    /\ gets = 0
    /\ runs = 0

\* a rerun starts from the top with nothing but the widget values
Rerun ==
    /\ pc' = "start"
    /\ runs' = runs + 1
    /\ cleaned_url' = NotCleaned
    /\ endpoint' = NoEndpoint
    /\ request' = NoRequest
    /\ outcome' = NoOutcome
    /\ products' = <<>>
    /\ image_data' = <<>>
    /\ grid' = <<>>
    /\ messages' = <<>>
    /\ stages' = <<>>
    /\ gets' = 0
    /\ UNCHANGED <<recleaned, lib, cols_count>>

Ended == pc \in {"done", "normalize_raised", "fetch_raised"}

\* the user enters a store URL (line 74)
EnterUrl(u) ==
    /\ Ended
    /\ runs < MaxRuns
    /\ url_input' = u
    /\ UNCHANGED slider
    /\ Rerun

\* the user moves the slider a previous run displayed (line 89)
MoveSlider(c) ==
    /\ pc = "done"
    /\ "render" \in {stages[i] : i \in 1..Len(stages)}
    /\ runs < MaxRuns
    /\ c # slider
    /\ slider' = c
    /\ UNCHANGED url_input
    /\ Rerun

\* line 76 with an empty input: nothing but the title and the footer
SkipEmptyInput ==
    /\ pc = "start"
    /\ url_input = <<>>
    /\ pc' = "done"
    /\ UNCHANGED <<url_input, cleaned_url, recleaned, endpoint, request, lib,
                   outcome, products, image_data, slider, cols_count, grid,
                   messages, stages, gets, runs>>

\* lines 76-78
Normalize ==
    /\ pc = "start"
    /\ url_input # <<>>
    /\ cleaned_url' = clean_shopify_url(url_input)
    /\ stages' = Append(stages, "normalize")
    /\ pc' = IF cleaned_url'.raised THEN "normalize_raised" ELSE "fetch"
    /\ UNCHANGED <<url_input, recleaned, endpoint, request, lib, outcome,
                   products, image_data, slider, cols_count, grid, messages,
                   gets, runs>>

\* line 81: the call of fetch_shopify_products, with the store's answer o
Fetch(o) ==
    /\ pc = "fetch"
    /\ LET r == fetch_shopify_products(cleaned_url.value, o, lib)
       IN  /\ endpoint' = r.endpoint
           /\ request' = r.request
           /\ products' = r.value
           /\ messages' = messages \o r.errors
           /\ pc' = IF r.raised THEN "fetch_raised" ELSE "fetched"
    /\ outcome' = o
    /\ gets' = gets + 1
    /\ stages' = Append(stages, "fetch")
    /\ UNCHANGED <<url_input, cleaned_url, recleaned, lib, image_data, slider,
                   cols_count, grid, runs>>

\* lines 83-85
Extract ==
    /\ pc = "fetched"
    /\ products # <<>>
    /\ image_data' = extract_images(products, cleaned_url.value)
    /\ messages' = Append(messages, Message("success", Found, Len(products)))
    /\ stages' = Append(stages, "extract")
    /\ pc' = "extracted"
    /\ UNCHANGED <<url_input, cleaned_url, recleaned, endpoint, request, lib,
                   outcome, products, slider, cols_count, grid, gets, runs>>

\* lines 89-109
Render ==
    /\ pc = "extracted"
    /\ cols_count' = slider
    /\ grid' = RenderGrid(image_data, cols_count')
    /\ stages' = Append(stages, "render")
    /\ pc' = "done"
    /\ UNCHANGED <<url_input, cleaned_url, recleaned, endpoint, request, lib,
                   outcome, products, image_data, slider, messages, gets,
                   runs>>

\* lines 110-112
WarnNoProducts ==
    /\ pc = "fetched"
    /\ products = <<>>
    /\ messages' =
           IF url_input # <<>>
           THEN Append(messages, Message("warning", NoProducts, 0))
           ELSE messages
    /\ pc' = "done"
    /\ UNCHANGED <<url_input, cleaned_url, recleaned, endpoint, request, lib,
                   outcome, products, image_data, slider, cols_count, grid,
                   stages, gets, runs>>

Next ==
    \/ \E u \in UrlInputs : EnterUrl(u)
    \/ \E c \in MinColumns..MaxColumns : MoveSlider(c)
    \/ SkipEmptyInput
    \/ Normalize
    \/ \E o \in Outcomes(cleaned_url.value) : Fetch(o)
    \/ Extract
    \/ Render
    \/ WarnNoProducts

Spec == Init /\ [][Next]_vars

(***************************************************************************)
(* Properties.                                                             *)
(***************************************************************************)
Cleaned == pc \in {"cleaned", "built", "recleaned"}

\* C3: clean_shopify_url is idempotent: applied to its own output it returns
\* that output again.
C3_Idempotent ==
    pc = "recleaned" => recleaned = cleaned_url

C10_SuffixBranchDead ==
    pc \in {"built", "recleaned"} =>
        /\ ~EndsWith(RStrip(cleaned_url.value, {"/"}), EndpointSuffix)
        /\ endpoint.branch = "append"
        /\ endpoint.api_url =
               RStrip(cleaned_url.value, {"/"}) \o EndpointTail

\* an endpoint built for a raw input that itself ends with the literal
C10_Witness ==
    /\ pc = "built"
    /\ EndsWith(url_input, EndpointSuffix)
    /\ endpoint.branch = "append"

\* C5: extract_images returns, in product order, one triple (first image's
\* src, title or default, origin + "/products/" + handle) for exactly the
\* products whose first image has a non-empty src; never more entries than
\* products.
HasUsableFirstImage(p) ==
    /\ "images" \in DOMAIN p
    /\ Len(p.images) >= 1
    /\ "src" \in DOMAIN p.images[1]
    /\ p.images[1].src # ""

TripleOf(p, origin) ==
    << p.images[1].src,
       IF "title" \in DOMAIN p THEN p.title ELSE "Unknown Product",
       origin \o <<"/","p","r","o","d","u","c","t","s","/">>
              \o (IF "handle" \in DOMAIN p THEN p.handle ELSE <<>>) >>

RECURSIVE Flatten(_)
Flatten(rows) == IF rows = <<>> THEN <<>> ELSE Head(rows) \o Flatten(Tail(rows))

C6_GridPartition ==
    pc = "rendered" =>
        LET n == Len(image_data)
            c == cols_count
            r == Len(grid)
        IN  /\ c \in 2..8
            /\ r * c >= n /\ (r - 1) * c < n
            /\ r = CeilDiv(n, c)
            /\ \A k \in 1..(r - 1) : Len(grid[k]) = c
            /\ r > 0 => Len(grid[r]) \in 1..c
            /\ Flatten(grid) = image_data
            /\ n = 0 => grid = <<>>

\* 13 entries in 5 columns: rows of 5, 5 and 3
C6_Witness ==
    /\ pc = "rendered"
    /\ Len(image_data) = 13
    /\ cols_count = 5
    /\ Len(grid) = 3
    /\ Len(grid[1]) = 5 /\ Len(grid[2]) = 5 /\ Len(grid[3]) = 3

RunStages == {stages[i] : i \in 1..Len(stages)}
ErrorsShown == SelectSeq(messages, LAMBDA m : m.level = "error")
FetchFailed ==
    \/ outcome.kind \in {"connection_error", "timeout", "invalid_url"}
    \/ outcome.kind = "response" /\ ~(outcome.status \in 200..299)
    \/ outcome.kind = "response" /\ outcome.body.kind = "not_json"

\* C1: fetch_shopify_products returns normally for every outcome of the GET
\* (no response, non-2xx, a body that is not JSON, a body that is any JSON
\* value); after a failure it has returned the empty sequence and shown one
\* error message.
C1_FetchNeverRaises ==
    "fetch" \in RunStages =>
        /\ pc # "fetch_raised"
        /\ FetchFailed => products = <<>> /\ Len(ErrorsShown) = 1

\* C2: a run on a non-empty URL input that ends with no grid cell rendered
\* shows the "no results" warning.
C2_NoResultsNotice ==
    (pc = "done" /\ url_input # <<>> /\ Flatten(grid) = <<>>) =>
        \E i \in 1..Len(messages) :
            messages[i].level = "warning" /\ messages[i].text = NoProducts

\* C7: the request issued is a GET of origin + "/products.json" with the
\* single query parameter limit=250 and a 10 second timeout.
C7_SingleLimitRequest ==
    "fetch" \in RunStages =>
        /\ request.method = "GET"
        /\ request.url =
               cleaned_url.value \o ProductsJson
                   \o <<"?","l","i","m","i","t","=","2","5","0">>
        /\ request.timeout = 10

\* C8: a 2xx response whose body is not JSON shows the "Invalid JSON
\* response" message, and a network or HTTP failure shows the "Error
\* fetching data" message: never the same message for both.
C8_DistinctJsonMessage ==
    "fetch" \in RunStages =>
        /\ (outcome.kind = "response" /\ outcome.status \in 200..299
                /\ outcome.body.kind = "not_json")
               => /\ Len(ErrorsShown) = 1
                  /\ ErrorsShown[1].text = InvalidJson
        /\ (outcome.kind # "response" \/ ~(outcome.status \in 200..299))
               => /\ Len(ErrorsShown) = 1
                  /\ ErrorsShown[1].text = FetchError

\* C9: a run on a non-empty URL input makes exactly one GET, after the
\* normalisation and before any extraction or rendering, which follow, in
\* that order, exactly when the fetch returned products; a run on an empty
\* input makes no GET.
C9_OneGetPerRun ==
    /\ gets <= 1
    /\ Ended =>
           IF url_input = <<>>
           THEN gets = 0 /\ stages = <<>>
           ELSE /\ gets = 1
                /\ stages = IF products # <<>>
                            THEN <<"normalize", "fetch", "extract", "render">>
                            ELSE <<"normalize", "fetch">>

====
